---------------------------- MODULE Spec2Model ----------------------------
(***************************************************************************)
(* A model of src/lib/preprocessing_analysis.py.                           *)
(*                                                                         *)
(* The module holds one group of variables per routine of the library and  *)
(* one specification per group:                                            *)
(*   Spec         one StationarityTests instance, calls made one at a time *)
(*   ConcSpec     two calls interleaved on one shared instance             *)
(*   NormSpec     normalize / denormalize in rounded binary arithmetic     *)
(*   FourierSpec  the bin selection of fourierExtrapolation                *)
(*   ResampleSpec resampling_data                                          *)
(*   WaveletSpec  the thresholding loop of wavelet_filter                  *)
(* Python sequences are 0-based, TLA+ sequences 1-based: t[k] in the       *)
(* source is t[k+1] here, and t[a:b] is SubSeq(t, a+1, b).                 *)
(***************************************************************************)
EXTENDS Integers, Sequences, FiniteSets, TLC

VARIABLES
    self,          \* the StationarityTests instance (its attributes)
    significance,  \* the argument __init__ was called with
    lastDone,      \* the most recent call that returned normally
    pre,           \* the instance as it was when the latest call began
    exc,           \* TRUE iff the latest call ended by raising
    pc,            \* ConcSpec: each thread's position in its call
    loc,           \* ConcSpec: each thread's local variables
    nrm,           \* NormSpec: inputs and result of the round trip
    fou,           \* FourierSpec: inputs and the bins used
    rsm,           \* ResampleSpec: inputs, returned table, df afterwards
    wav            \* WaveletSpec: inputs and what reaches waverec

vars == <<self, significance, lastDone, pre, exc, pc, loc, nrm, fou, rsm, wav>>

-----------------------------------------------------------------------------
(* Python values held in a table cell or an attribute: None, a number, a   *)
(* string or a dict (an ordered list of <<key, number>> pairs).            *)

PyNone == [kind |-> "None", num |-> 0, str |-> "", dict |-> <<>>]

Num(n) == [kind |-> "num", num |-> n, str |-> "", dict |-> <<>>]

Str(s) == [kind |-> "str", num |-> 0, str |-> s, dict |-> <<>>]

Dict(d) == [kind |-> "dict", num |-> 0, str |-> "", dict |-> d]

(* An attribute that was never assigned (self.Results before any call).    *)
NoAttr == [title |-> "<no attribute>", rows |-> <<>>]

-----------------------------------------------------------------------------
(* Bounds of the stationarity model.  P-values and the significance level  *)
(* are counted in a common unit, so that a p-value equal to the level is   *)
(* among the cases.                                                        *)

MaxP == 2

PValues == 0..MaxP

SignificanceLevels == 1..(MaxP - 1)

Stats == {0, 1}

SeriesLens == {6, 7}

CritVariants == {0, 1}

-----------------------------------------------------------------------------
(* The statsmodels library, as the source calls it.                        *)

(* adfuller(timeseries, autolag=None, maxlag=1) returns the 5-tuple        *)
(* (adfstat, pvalue, usedlag, nobs, critvalues): one lag is used and the   *)
(* regression uses len(timeseries) - usedlag - 1 observations.             *)
adfuller(n) ==
    { <<Num(s), Num(p), Num(1), Num(n - 2),
        Dict(<< <<"1%", c>>, <<"5%", c + 1>>, <<"10%", c + 2>> >>)>> :
        s \in Stats, p \in PValues, c \in CritVariants }

(* kpss(timeseries, nlags=1) returns the 4-tuple (kpss_stat, p_value,      *)
(* lags, crit): it has no observation count.                               *)
kpss(n) ==
    { <<Num(s), Num(p), Num(1),
        Dict(<< <<"10%", c>>, <<"5%", c + 1>>, <<"2.5%", c + 2>>, <<"1%", c + 3>> >>)>> :
        s \in Stats, p \in PValues, c \in CritVariants }

(* What a library call does: it returns a tuple or raises.                 *)
Returned(t) == [raises |-> FALSE, ret |-> t]

Raises == [raises |-> TRUE, ret |-> <<>>]

-----------------------------------------------------------------------------
(* pandas, as the source uses it.  A Series is a sequence of rows          *)
(* [label, key, value]; the label of a critical value row is the           *)
(* f-string 'Critical Value (<key>)', kept here as label and key.          *)

Row(label, key, value) == [label |-> label, key |-> key, value |-> value]

(* pd.Series(values, index=labels) *)
Series(values, labels) ==
    [k \in 1..Len(labels) |-> Row(labels[k], "", values[k])]

(* series[label] = value: overwrite the row of that label, or append one. *)
SetItem(series, label, key, value) ==
    IF \E k \in 1..Len(series) : series[k].label = label /\ series[k].key = key
    THEN [k \in 1..Len(series) |->
            IF series[k].label = label /\ series[k].key = key
            THEN Row(label, key, value) ELSE series[k]]
    ELSE Append(series, Row(label, key, value))

RECURSIVE AddCriticalValues(_, _)
(* for key, value in crit.items(): dfResults[f'Critical Value ({key})'] = value *)
AddCriticalValues(series, items) ==
    IF items = <<>> THEN series
    ELSE AddCriticalValues(
            SetItem(series, "Critical Value", Head(items)[1], Num(Head(items)[2])),
            Tail(items))

(* pd.DataFrame(series, columns=[title]) *)
DataFrame(series, title) == [title |-> title, rows |-> series]

(* df.loc[label, :] = value *)
LocSetRow(df, label, value) ==
    [df EXCEPT !.rows = SetItem(df.rows, label, "", value)]

-----------------------------------------------------------------------------
(* class StationarityTests                                                 *)

__init__(sig) ==
    [SignificanceLevel |-> sig, pValue |-> PyNone, isStationary |-> PyNone,
     Results |-> NoAttr]

AdfVerdictLe(pValue, SignificanceLevel) ==
    IF pValue.num <= SignificanceLevel THEN Str("Yes") ELSE Str("No")

AdfVerdict(pValue, SignificanceLevel) ==
    IF pValue.num < SignificanceLevel THEN Str("Yes") ELSE Str("No")

KpssVerdictGe(pValue, SignificanceLevel) ==
    IF pValue.num >= SignificanceLevel THEN Str("Yes") ELSE Str("No")

KpssVerdict(pValue, SignificanceLevel) ==
    IF pValue.num > SignificanceLevel THEN Str("Yes") ELSE Str("No")

AdfIndex == <<"DF Test Statistic", "P-Value", "# Lags Used", "# Observations Used">>

KpssIndex == <<"KPSS Test Statistic", "P-Value", "# Lags Used", "# Observations Used">>

VerdictLabel == "Is the time series stationary?"

(* Lines 152-167: the report table, whose last row is read from isStationary. *)
AdfReport(adfTest, isStationary) ==
    LocSetRow(
        DataFrame(AddCriticalValues(Series(SubSeq(adfTest, 1, 4), AdfIndex),
                                    adfTest[5].dict),
                  "Dickey-Fuller Test Results"),
        VerdictLabel, isStationary)

(* Lines 180-195. *)
KpssReport(kpssTest, isStationary) ==
    LocSetRow(
        DataFrame(AddCriticalValues(Series(SubSeq(kpssTest, 1, 4), KpssIndex),
                                    kpssTest[4].dict),
                  "KPSS Test Results"),
        VerdictLabel, isStationary)

(* A variant that takes the wrong element of the tuple (the statistic). *)
StorePValueWrongIndex(obj, test) == [obj EXCEPT !.pValue = test[1]]

(* self.pValue = adfTest[1]  /  self.pValue = kpssTest[1] *)
StorePValue(obj, test) == [obj EXCEPT !.pValue = test[2]]

(* Lines 145-168, after adfuller has returned adfTest. *)
AdfBody(obj, adfTest) ==
    LET s1 == StorePValue(obj, adfTest)
        s2 == [s1 EXCEPT !.isStationary = AdfVerdict(s1.pValue, s1.SignificanceLevel)]
    IN  [s2 EXCEPT !.Results = AdfReport(adfTest, s2.isStationary)]

(* Lines 173-196, after kpss has returned kpssTest. *)
KpssBody(obj, kpssTest) ==
    LET s1 == StorePValue(obj, kpssTest)
        s2 == [s1 EXCEPT !.isStationary = KpssVerdict(s1.pValue, s1.SignificanceLevel)]
    IN  [s2 EXCEPT !.Results = KpssReport(kpssTest, s2.isStationary)]

(* A variant that clears the last results before it calls the library.     *)
ADF_ClearsFirst(obj, lib) ==
    IF lib.raises
    THEN [self |-> [obj EXCEPT !.pValue = PyNone, !.isStationary = PyNone], exc |-> TRUE]
    ELSE [self |-> AdfBody(obj, lib.ret), exc |-> FALSE]

(* The whole method: the library call is its first statement, so an        *)
(* exception leaves before any attribute is assigned.                      *)
ADF_Stationarity_Test(obj, lib) ==
    IF lib.raises
    THEN [self |-> obj, exc |-> TRUE]
    ELSE [self |-> AdfBody(obj, lib.ret), exc |-> FALSE]

(* A variant that appends its rows to the table of the previous call.      *)
Kpss_KeepsOldRows(obj, lib) ==
    IF lib.raises
    THEN [self |-> obj, exc |-> TRUE]
    ELSE LET s == KpssBody(obj, lib.ret)
         IN  [self |-> [s EXCEPT !.Results.rows = obj.Results.rows \o s.Results.rows],
              exc |-> FALSE]

kpss_Stationarity_Test(obj, lib) ==
    IF lib.raises
    THEN [self |-> obj, exc |-> TRUE]
    ELSE [self |-> KpssBody(obj, lib.ret), exc |-> FALSE]

-----------------------------------------------------------------------------
(* Spec: one instance, calls made one at a time.                           *)

NoCall == [kind |-> "none", n |-> 0, ret |-> <<>>]

Init ==
    /\ significance \in SignificanceLevels
    /\ self = __init__(significance)
    /\ lastDone = NoCall
    /\ pre = self
    /\ exc = FALSE
    /\ pc = <<>>
    /\ loc = <<>>
    /\ nrm = <<>>
    /\ fou = <<>>
    /\ rsm = <<>>
    /\ wav = <<>>

CallADF ==
    \E n \in SeriesLens :
      \E lib \in {Returned(t) : t \in adfuller(n)} \cup {Raises} :
        LET r == ADF_Stationarity_Test(self, lib) IN
        /\ pre' = self
        /\ self' = r.self
        /\ exc' = r.exc
        /\ lastDone' = IF r.exc THEN lastDone
                       ELSE [kind |-> "ADF", n |-> n, ret |-> lib.ret]
        /\ UNCHANGED <<significance, pc, loc, nrm, fou, rsm, wav>>

CallKPSS ==
    \E n \in SeriesLens :
      \E lib \in {Returned(t) : t \in kpss(n)} \cup {Raises} :
        LET r == kpss_Stationarity_Test(self, lib) IN
        /\ pre' = self
        /\ self' = r.self
        /\ exc' = r.exc
        /\ lastDone' = IF r.exc THEN lastDone
                       ELSE [kind |-> "KPSS", n |-> n, ret |-> lib.ret]
        /\ UNCHANGED <<significance, pc, loc, nrm, fou, rsm, wav>>

Next == CallADF \/ CallKPSS

Spec == Init /\ [][Next]_vars

-----------------------------------------------------------------------------
(* Properties of Spec.                                                     *)

(* The value of the first row of table df that carries label. *)
RowValue(df, label) ==
    LET k == CHOOSE k \in 1..Len(df.rows) : df.rows[k].label = label
    IN  df.rows[k].value

(* What a fresh instance holds after making only the call c. *)
AloneOnFresh(c) ==
    IF c.kind = "ADF"
    THEN ADF_Stationarity_Test(__init__(significance), Returned(c.ret)).self
    ELSE kpss_Stationarity_Test(__init__(significance), Returned(c.ret)).self

(* C2: after any sequence of calls made one at a time, pValue,             *)
(* isStationary and Results are exactly those the most recent completed    *)
(* call produces (its p-value, its verdict, its table under that test's    *)
(* column title), nothing of an earlier call remains, and                  *)
(* SignificanceLevel is the value given at construction.                   *)
C2_HoldsMostRecentCall ==
    /\ self.SignificanceLevel = significance
    /\ lastDone.kind = "none" => self = __init__(significance)
    /\ lastDone.kind # "none" =>
          /\ self = AloneOnFresh(lastDone)
          /\ self.pValue = lastDone.ret[2]
          /\ RowValue(self.Results, "P-Value") = lastDone.ret[2]
          /\ RowValue(self.Results, VerdictLabel) = self.isStationary
          /\ self.Results.title = (IF lastDone.kind = "ADF"
                                   THEN "Dickey-Fuller Test Results"
                                   ELSE "KPSS Test Results")
          /\ Len(self.Results.rows) = 5 + Len(lastDone.ret[Len(lastDone.ret)].dict)

(* C2 witness: a KPSS call has replaced the results of an ADF call that    *)
(* had another p-value.                                                    *)
C2_Witness ==
    /\ ~exc
    /\ lastDone.kind = "KPSS"
    /\ pre.Results.title = "Dickey-Fuller Test Results"
    /\ pre.pValue # self.pValue
    /\ pre.isStationary # self.isStationary
    /\ self.Results.title = "KPSS Test Results"

(* The number of observations of the test behind the call c: adfuller      *)
(* reports it, kpss uses the whole series.                                 *)
ObservationCount(c) == IF c.kind = "ADF" THEN c.ret[4] ELSE Num(c.n)

(* C3: the report of either test holds the statistic, the p-value, the lag *)
(* count and the observation count of the test just run in its rows        *)
(* 'Test Statistic', 'P-Value', '# Lags Used', '# Observations Used',      *)
(* then one 'Critical Value' row per critical value, then the verdict row. *)
C3_ReportRows ==
    lastDone.kind # "none" =>
      LET rows == self.Results.rows
          crit == lastDone.ret[Len(lastDone.ret)].dict
      IN  /\ Len(rows) = 4 + Len(crit) + 1
          /\ rows[1].label \in {"DF Test Statistic", "KPSS Test Statistic"}
          /\ rows[1].value = lastDone.ret[1]
          /\ rows[2].label = "P-Value"
          /\ rows[2].value = lastDone.ret[2]
          /\ rows[3].label = "# Lags Used"
          /\ rows[3].value = lastDone.ret[3]
          /\ rows[4].label = "# Observations Used"
          /\ rows[4].value = ObservationCount(lastDone)
          /\ \A k \in 1..Len(crit) :
                /\ rows[4 + k].label = "Critical Value"
                /\ rows[4 + k].key = crit[k][1]
                /\ rows[4 + k].value = Num(crit[k][2])
          /\ rows[Len(rows)].label = VerdictLabel
          /\ rows[Len(rows)].value = self.isStationary

(* C6: after a completed ADF call the verdict is 'Yes' iff the p-value is  *)
(* strictly below SignificanceLevel, and 'No' otherwise.                   *)
C6_AdfVerdict ==
    lastDone.kind = "ADF" =>
      /\ lastDone.ret[2].num < significance => self.isStationary = Str("Yes")
      /\ lastDone.ret[2].num >= significance => self.isStationary = Str("No")

(* C6 witness: an ADF call whose p-value equals the level answered 'No'. *)
C6_Witness ==
    /\ ~exc
    /\ lastDone.kind = "ADF"
    /\ lastDone.ret[2].num = significance
    /\ self.isStationary = Str("No")

(* C7: after a completed KPSS call the verdict is 'Yes' iff the p-value is *)
(* strictly above SignificanceLevel, and 'No' otherwise: the reverse of    *)
(* the comparison of the ADF test.                                         *)
C7_KpssVerdict ==
    lastDone.kind = "KPSS" =>
      /\ lastDone.ret[2].num > significance => self.isStationary = Str("Yes")
      /\ lastDone.ret[2].num <= significance => self.isStationary = Str("No")

(* C7 witness: a KPSS call whose p-value equals the level answered 'No'. *)
C7_Witness ==
    /\ ~exc
    /\ lastDone.kind = "KPSS"
    /\ lastDone.ret[2].num = significance
    /\ self.isStationary = Str("No")

(* C10: when the library test raises, the error reaches the caller and     *)
(* pValue, isStationary, Results and SignificanceLevel are what they were  *)
(* before the call.                                                        *)
C10_RaiseLeavesObject ==
    exc => /\ self = pre
           /\ self.SignificanceLevel = significance

(* C10 witness: a call raised on an instance holding an earlier result. *)
C10_Witness ==
    /\ exc
    /\ lastDone.kind # "none"
    /\ self.pValue # PyNone
    /\ self.Results # NoAttr

-----------------------------------------------------------------------------
(* ConcSpec: two threads, each making one call on the same instance.  The  *)
(* interpreter switches threads between bytecodes, so every read and every *)
(* write of an attribute of self is a step of its own; what lies between   *)
(* two of them touches only the thread's locals.  The library calls return *)
(* normally here.                                                          *)

Threads == {1, 2}

NoLocals == [kind |-> "none", test |-> <<>>, verdict |-> PyNone, df |-> NoAttr]

ConcInit ==
    /\ significance \in SignificanceLevels
    /\ self = __init__(significance)
    /\ lastDone = NoCall
    /\ pre = self
    /\ exc = FALSE
    /\ pc = [t \in Threads |-> "call"]
    /\ loc = [t \in Threads |-> NoLocals]
    /\ nrm = <<>>
    /\ fou = <<>>
    /\ rsm = <<>>
    /\ wav = <<>>

ConcIdle == UNCHANGED <<significance, lastDone, pre, exc, nrm, fou, rsm, wav>>

(* Line 143 / 171: the library call, into the local adfTest / kpssTest. *)
LibraryCall(t) ==
    /\ pc[t] = "call"
    /\ \E n \in SeriesLens :
         \/ \E r \in adfuller(n) :
              loc' = [loc EXCEPT ![t].kind = "ADF", ![t].test = r]
         \/ \E r \in kpss(n) :
              loc' = [loc EXCEPT ![t].kind = "KPSS", ![t].test = r]
    /\ pc' = [pc EXCEPT ![t] = "store_pValue"]
    /\ UNCHANGED self
    /\ ConcIdle

(* Line 145 / 173: self.pValue = test[1] *)
WritePValue(t) ==
    /\ pc[t] = "store_pValue"
    /\ self' = StorePValue(self, loc[t].test)
    /\ pc' = [pc EXCEPT ![t] = "compare"]
    /\ UNCHANGED loc
    /\ ConcIdle

(* Line 147 / 175: the condition reads self.pValue and                     *)
(* self.SignificanceLevel and selects the branch.                          *)
Compare(t) ==
    /\ pc[t] = "compare"
    /\ loc' = [loc EXCEPT ![t].verdict =
                 IF loc[t].kind = "ADF"
                 THEN AdfVerdict(self.pValue, self.SignificanceLevel)
                 ELSE KpssVerdict(self.pValue, self.SignificanceLevel)]
    /\ pc' = [pc EXCEPT ![t] = "store_isStationary"]
    /\ UNCHANGED self
    /\ ConcIdle

(* Lines 148, 150 / 176, 178: self.isStationary = 'Yes' or 'No' *)
WriteIsStationary(t) ==
    /\ pc[t] = "store_isStationary"
    /\ self' = [self EXCEPT !.isStationary = loc[t].verdict]
    /\ pc' = [pc EXCEPT ![t] = "report"]
    /\ UNCHANGED loc
    /\ ConcIdle

(* Lines 152-167 / 180-195: the table is built from the local tuple; its   *)
(* last row reads self.isStationary.                                       *)
BuildReport(t) ==
    /\ pc[t] = "report"
    /\ loc' = [loc EXCEPT ![t].df =
                 IF loc[t].kind = "ADF"
                 THEN AdfReport(loc[t].test, self.isStationary)
                 ELSE KpssReport(loc[t].test, self.isStationary)]
    /\ pc' = [pc EXCEPT ![t] = "store_Results"]
    /\ UNCHANGED self
    /\ ConcIdle

(* Line 168 / 196: self.Results = df *)
WriteResults(t) ==
    /\ pc[t] = "store_Results"
    /\ self' = [self EXCEPT !.Results = loc[t].df]
    /\ pc' = [pc EXCEPT ![t] = "done"]
    /\ UNCHANGED loc
    /\ ConcIdle

ConcNext ==
    \E t \in Threads :
        \/ LibraryCall(t)
        \/ WritePValue(t)
        \/ Compare(t)
        \/ WriteIsStationary(t)
        \/ BuildReport(t)
        \/ WriteResults(t)

ConcSpec == ConcInit /\ [][ConcNext]_vars

-----------------------------------------------------------------------------
(* Properties of ConcSpec.                                                 *)

(* The verdict the test of the given kind derives from p-value p. *)
VerdictOf(kind, p) ==
    IF kind = "ADF"
    THEN (IF p < significance THEN Str("Yes") ELSE Str("No"))
    ELSE (IF p > significance THEN Str("Yes") ELSE Str("No"))

Other(t) == CHOOSE u \in Threads : u # t

(* Thread t has stored a table. *)
Stored(t) == pc[t] = "done"

(* The verdict row of t's table disagrees with the table's own P-Value row. *)
Disagrees(t) ==
    RowValue(loc[t].df, VerdictLabel)
        # VerdictOf(loc[t].kind, RowValue(loc[t].df, "P-Value").num)

(* C4: the instance is not safe for concurrent reuse.  A stored table      *)
(* always carries the p-value of its own call; its verdict row disagrees   *)
(* with that p-value only through the other call, which has then written   *)
(* self.pValue, and the verdict is the one a call derives from the other   *)
(* call's p-value or the other call's comparison.  C4_Witness is the       *)
(* reachable state the claim speaks of.                                    *)
C4_DisagreementIsInterference ==
    \A t \in Threads :
      Stored(t) =>
        LET u == Other(t)
            v == RowValue(loc[t].df, VerdictLabel)
        IN  /\ RowValue(loc[t].df, "P-Value") = loc[t].test[2]
            /\ Disagrees(t) =>
                 /\ pc[u] \notin {"call", "store_pValue"}
                 /\ v \in { VerdictOf(loc[t].kind, loc[u].test[2].num),
                            VerdictOf(loc[u].kind, loc[u].test[2].num),
                            VerdictOf(loc[u].kind, loc[t].test[2].num) }

(* C4 witness: two calls of the same test; one has stored, as              *)
(* self.Results, a table whose verdict row contradicts its own P-Value row *)
(* and is the verdict of the other call's p-value.                         *)
C4_Witness ==
    \E t \in Threads :
      /\ Stored(t)
      /\ loc[t].kind = loc[Other(t)].kind
      /\ self.Results = loc[t].df
      /\ Disagrees(t)
      /\ RowValue(loc[t].df, VerdictLabel)
           = VerdictOf(loc[t].kind, loc[Other(t)].test[2].num)

-----------------------------------------------------------------------------
(* NormSpec: normalize and denormalize.  The source computes in binary     *)
(* floating point (Python floats, numpy float64): every operation returns  *)
(* the exact result rounded to the nearest representable number, ties to   *)
(* even.  The model keeps that arithmetic and scales the precision down    *)
(* from 53 to Prec significant bits.  A number is held as its count of     *)
(* ticks, one tick being 2^-Frac; Frac is large enough for every result    *)
(* the bounded inputs produce to be a whole number of ticks.               *)

Prec == 4

MaxVal == 7

RECURSIVE Pow2(_)
Pow2(k) == IF k = 0 THEN 1 ELSE 2 * Pow2(k - 1)

RECURSIVE FloorLog2(_)
FloorLog2(n) == IF n < 2 THEN 0 ELSE 1 + FloorLog2(n \div 2)

Abs(i) == IF i < 0 THEN -i ELSE i

Sign(i) == IF i < 0 THEN -1 ELSE 1

(* Quotients of the inputs are at least 2^-(FloorLog2(2*MaxVal) + 1). *)
Frac == FloorLog2(2 * MaxVal) + 1 + Prec

Tick == Pow2(Frac)

(* The rational N/D >= 0, counted in ticks, rounded to Prec significant    *)
(* bits, ties to even.                                                     *)
RoundQ(N, D) ==
    IF N = 0 THEN 0
    ELSE LET j    == FloorLog2(N \div D)
             ulp  == IF j >= Prec THEN Pow2(j - Prec + 1) ELSE 1
             den  == D * ulp
             q    == N \div den
             rem  == N % den
             up   == 2 * rem > den \/ (2 * rem = den /\ q % 2 = 1)
         IN  (IF up THEN q + 1 ELSE q) * ulp

FAdd(a, b) == Sign(a + b) * RoundQ(Abs(a + b), 1)

FSub(a, b) == Sign(a - b) * RoundQ(Abs(a - b), 1)

FMul(a, b) == Sign(a) * Sign(b) * RoundQ(Abs(a) * Abs(b), Tick)

FDiv(a, b) == Sign(a) * Sign(b) * RoundQ(Abs(a) * Tick, Abs(b))

(* A variant that adds data_max back instead of data_min. *)
denormalizeAddsMax(data_normalized, data_max, data_min) ==
    FAdd(FMul(data_normalized, FSub(data_max, data_min)), data_max)

(* return (data - data_min) / (data_max - data_min) *)
normalize(data, data_max, data_min) ==
    FDiv(FSub(data, data_min), FSub(data_max, data_min))

(* return data_normalized * (data_max - data_min) + data_min *)
denormalize(data_normalized, data_max, data_min) ==
    FAdd(FMul(data_normalized, FSub(data_max, data_min)), data_min)

NormInputs == (-MaxVal)..MaxVal

NormInit ==
    /\ \E x \in NormInputs, hi \in NormInputs, lo \in NormInputs :
         nrm = [x |-> x * Tick, hi |-> hi * Tick, lo |-> lo * Tick,
                at |-> "input", normalized |-> 0, restored |-> 0]
    /\ significance = 1
    /\ self = __init__(significance)
    /\ lastDone = NoCall
    /\ pre = self
    /\ exc = FALSE
    /\ pc = <<>>
    /\ loc = <<>>
    /\ fou = <<>>
    /\ rsm = <<>>
    /\ wav = <<>>

NormIdle == UNCHANGED <<self, significance, lastDone, pre, exc, pc, loc, fou, rsm, wav>>

(* normalize(x, hi, lo); with hi = lo the division is by zero: a Python    *)
(* float raises ZeroDivisionError, a numpy array yields inf or nan.        *)
Normalize ==
    /\ nrm.at = "input"
    /\ IF nrm.hi = nrm.lo
       THEN nrm' = [nrm EXCEPT !.at = "division by zero"]
       ELSE nrm' = [nrm EXCEPT !.at = "normalized",
                               !.normalized = normalize(nrm.x, nrm.hi, nrm.lo)]
    /\ NormIdle

(* denormalize(normalize(x, hi, lo), hi, lo) *)
Denormalize ==
    /\ nrm.at = "normalized"
    /\ nrm' = [nrm EXCEPT !.at = "restored",
                          !.restored = denormalize(nrm.normalized, nrm.hi, nrm.lo)]
    /\ NormIdle

NormNext == Normalize \/ Denormalize

NormSpec == NormInit /\ [][NormNext]_vars

-----------------------------------------------------------------------------
(* Properties of NormSpec.                                                 *)

(* C1 as stated: for hi # lo, denormalize(normalize(x, hi, lo), hi, lo)    *)
(* equals x exactly.                                                       *)
C1_RoundTripExact ==
    nrm.at = "restored" => nrm.restored = nrm.x

(* C1 as amended: for hi # lo the round trip returns x up to rounding:     *)
(* |result - x| <= 4 * u * (|x - lo| + |x|), u = 2^-Prec the unit          *)
(* roundoff; and it returns x exactly when x = lo.                         *)
C1_RoundTripWithinRounding ==
    nrm.at = "restored" =>
      /\ Abs(nrm.restored - nrm.x) * Pow2(Prec)
            <= 4 * (Abs(nrm.x - nrm.lo) + Abs(nrm.x))
      /\ nrm.x = nrm.lo => nrm.restored = nrm.x

(* C1 witness: a round trip with hi # lo that rounding has moved off x. *)
C1_Witness ==
    /\ nrm.at = "restored"
    /\ nrm.hi # nrm.lo
    /\ nrm.restored # nrm.x

-----------------------------------------------------------------------------
(* FourierSpec: fourierExtrapolation.  The model follows the routine up to *)
(* the choice of the frequency bins its output is summed from; amplitude   *)
(* and phase of a bin are numpy's and are left out.  Frequencies are kept  *)
(* as their numerators over n.                                             *)

MaxN == 5

MaxHarm == 3

Min(a, b) == IF a < b THEN a ELSE b

(* All sequences over S of length 0..n. *)
SeqsUpTo(S, n) == UNION { [1..k -> S] : k \in 0..n }

(* np.fft.fftfreq(n) * n: [0, 1, ..., (n-1)//2, -(n//2), ..., -1] *)
fftfreq(n) == [k \in 1..n |-> IF k - 1 <= (n - 1) \div 2 THEN k - 1 ELSE k - 1 - n]

(* list(range(n)) *)
Range(n) == [k \in 1..n |-> k - 1]

RECURSIVE InsertStable(_, _, _)
(* e placed behind every element of the sorted list whose key is <= its own. *)
InsertStable(sorted, e, f) ==
    IF sorted = <<>> THEN <<e>>
    ELSE IF Abs(f[Head(sorted) + 1]) <= Abs(f[e + 1])
         THEN <<Head(sorted)>> \o InsertStable(Tail(sorted), e, f)
         ELSE <<e>> \o sorted

RECURSIVE SortByAbsFreq(_, _)
(* indexes.sort(key=lambda i: np.absolute(f[i])): list.sort is stable. *)
SortByAbsFreq(indexes, f) ==
    IF indexes = <<>> THEN <<>>
    ELSE InsertStable(SortByAbsFreq(SubSeq(indexes, 1, Len(indexes) - 1), f),
                      indexes[Len(indexes)], f)

(* s[a:b] for 0 <= a, 0 <= b: the slice stops at the end of the list. *)
PySlice(s, a, b) == SubSeq(s, a + 1, Min(b, Len(s)))

(* A variant that does not skip the first index. *)
SelectedBinsFromZero(indexes, n_harm) == PySlice(indexes, 0, n_harm * 2)

(* indexes[1:1 + n_harm * 2] *)
SelectedBins(indexes, n_harm) == PySlice(indexes, 1, 1 + n_harm * 2)

(* The whole routine.  np.polyfit raises TypeError on an empty x. *)
fourierExtrapolation(x, n_harm) ==
    LET n == Len(x)
    IN  IF n = 0
        THEN [at |-> "raised", used |-> <<>>]
        ELSE [at |-> "returned",
              used |-> SelectedBins(SortByAbsFreq(Range(n), fftfreq(n)), n_harm)]

FourierInit ==
    /\ \E x \in SeqsUpTo({0, 1}, MaxN), n_harm \in 0..MaxHarm :
         fou = [x |-> x, n_harm |-> n_harm, at |-> "input", used |-> <<>>]
    /\ significance = 1
    /\ self = __init__(significance)
    /\ lastDone = NoCall
    /\ pre = self
    /\ exc = FALSE
    /\ pc = <<>>
    /\ loc = <<>>
    /\ nrm = <<>>
    /\ rsm = <<>>
    /\ wav = <<>>

CallFourier ==
    /\ fou.at = "input"
    /\ LET r == fourierExtrapolation(fou.x, fou.n_harm)
       IN  fou' = [fou EXCEPT !.at = r.at, !.used = r.used]
    /\ UNCHANGED <<self, significance, lastDone, pre, exc, pc, loc, nrm, rsm, wav>>

FourierNext == CallFourier

FourierSpec == FourierInit /\ [][FourierNext]_vars

-----------------------------------------------------------------------------
(* Properties of FourierSpec.                                              *)

(* The absolute frequency (times n) of bin i of an n-point transform. *)
BinAbsFreq(i, n) == Min(i, n - i)

(* The bins used are ranks 1 .. min(2*n_harm, n-1) of the bins in          *)
(* ascending absolute frequency: that many of them, none the DC bin, none  *)
(* twice, in ascending order, and no bin left out lies below a bin used.   *)
UsesLowestRanks(used, n, n_harm) ==
    /\ Len(used) = Min(2 * n_harm, n - 1)
    /\ \A k \in 1..Len(used) :
         /\ used[k] \in 0..(n - 1)
         /\ BinAbsFreq(used[k], n) # 0
    /\ \A j, k \in 1..Len(used) : j # k => used[j] # used[k]
    /\ \A j, k \in 1..Len(used) :
         j < k => BinAbsFreq(used[j], n) <= BinAbsFreq(used[k], n)
    /\ \A b \in 1..(n - 1) :
         (\A k \in 1..Len(used) : used[k] # b) =>
           \A k \in 1..Len(used) : BinAbsFreq(used[k], n) <= BinAbsFreq(b, n)

-----------------------------------------------------------------------------
(* ResampleSpec: resampling_data.  A table is its set of columns and its   *)
(* rows, each row a function on the columns.  Dates are whole numbers and  *)
(* resample_cost is the width of a bucket.  An aggregate is a fraction     *)
(* [num, den] in lowest terms, den = 0 standing for NaN (the mean of no    *)
(* rows).                                                                  *)

MaxRows == 2

BucketWidths == {1, 2}

Dates == {0, 1, 5}

CellValues == {0, 1}

ColumnSets ==
    { {"Date", "Hour", "Minutes", "Load"},
      {"Date", "Hour", "Minutes"},
      {"Date", "Minutes", "Load"},
      {"Hour", "Minutes", "Load"} }

FeatureLists ==
    { <<"Load">>, <<>>, <<"Hour">>, <<"Load", "Hour">>, <<"Load", "Load">>, <<"Date">> }

RowsOver(cols) ==
    { r \in [cols -> Dates \cup CellValues] :
        \A c \in cols : r[c] \in (IF c = "Date" THEN Dates ELSE CellValues) }

Tables ==
    UNION { { [columns |-> cols, rows |-> rows] :
                rows \in UNION { [1..k -> RowsOver(cols)] : k \in 1..MaxRows } } :
            cols \in ColumnSets }

RECURSIVE Gcd(_, _)
Gcd(a, b) == IF b = 0 THEN a ELSE Gcd(b, a % b)

NaN == [num |-> 0, den |-> 0]

Fraction(n, d) ==
    IF d = 0 THEN NaN ELSE [num |-> n \div Gcd(n, d), den |-> d \div Gcd(n, d)]

RECURSIVE SumSeq(_)
SumSeq(v) == IF v = <<>> THEN 0 ELSE Head(v) + SumSeq(Tail(v))

RECURSIVE DictSet(_, _, _)
(* d[key] = how on an ordered dict: an existing key keeps its place. *)
DictSet(d, key, how) ==
    IF d = <<>> THEN << <<key, how>> >>
    ELSE IF Head(d)[1] = key THEN << <<key, how>> >> \o Tail(d)
         ELSE <<Head(d)>> \o DictSet(Tail(d), key, how)

RECURSIVE DictUnion(_, _)
(* d1 | d2: the entries of d2 override those of d1. *)
DictUnion(d1, d2) ==
    IF d2 = <<>> THEN d1
    ELSE DictUnion(DictSet(d1, Head(d2)[1], Head(d2)[2]), Tail(d2))

RECURSIVE FeatureDict(_, _)
(* {feature: how for feature in features} *)
FeatureDict(features, how) ==
    IF features = <<>> THEN <<>>
    ELSE DictUnion(<< <<Head(features), how>> >>, FeatureDict(Tail(features), how))

(* A variant that averages the feature columns. *)
AggregationRulesMean(features) ==
    DictUnion(<< <<"Hour", "mean">>, <<"Minutes", "mean">> >>,
              FeatureDict(features, "mean"))

(* f = {'Hour': 'mean', 'Minutes': 'mean'} | {feature: 'sum' for feature in features} *)
AggregationRules(features) ==
    DictUnion(<< <<"Hour", "mean">>, <<"Minutes", "mean">> >>,
              FeatureDict(features, "sum"))

Keys(d) == { d[k][1] : k \in 1..Len(d) }

(* The bucket a date falls in. *)
Bucket(date, width) == date \div width

(* The values of column c in the rows of bucket b, in row order. *)
RECURSIVE ColumnInBucket(_, _, _, _)
ColumnInBucket(rows, c, b, width) ==
    IF rows = <<>> THEN <<>>
    ELSE (IF Bucket(Head(rows)["Date"], width) = b THEN <<Head(rows)[c]>> ELSE <<>>)
         \o ColumnInBucket(Tail(rows), c, b, width)

(* One aggregate: 'sum' of no rows is 0, 'mean' of no rows is NaN. *)
Aggregate(values, how) ==
    IF how = "sum" THEN Fraction(SumSeq(values), 1)
    ELSE Fraction(SumSeq(values), Len(values))

SetMin(S) == CHOOSE m \in S : \A e \in S : m <= e

SetMax(S) == CHOOSE m \in S : \A e \in S : m >= e

(* .resample(width).agg(f): one row per bucket from the first to the last, *)
(* the empty ones between them as well.                                    *)
ResampleAgg(rows, f, width) ==
    LET bs    == { Bucket(rows[k]["Date"], width) : k \in 1..Len(rows) }
        first == SetMin(bs)
        last  == SetMax(bs)
    IN  [k \in 1..(last - first + 1) |->
           [bucket |-> first + k - 1,
            vals |-> [c \in Keys(f) |->
                        LET how == (CHOOSE e \in { f[i] : i \in 1..Len(f) } : e[1] = c)[2]
                        IN  Aggregate(ColumnInBucket(rows, c, first + k - 1, width), how)]]]

(* The whole function: what it returns or raises, and the caller's df      *)
(* afterwards.  set_index raises KeyError without a 'Date' column; agg     *)
(* raises KeyError for a column of f that the indexed table lacks ('Date'  *)
(* is the index by then, no longer a column).                              *)
resampling_data(df, features, resample_cost) ==
    LET f   == AggregationRules(features)
        tmp == df
    IN  IF "Date" \notin tmp.columns
        THEN [at |-> "KeyError", out |-> <<>>, df |-> df]
        ELSE IF ~(Keys(f) \subseteq (tmp.columns \ {"Date"}))
             THEN [at |-> "KeyError", out |-> <<>>, df |-> df]
             ELSE [at |-> "returned",
                   out |-> ResampleAgg(tmp.rows, f, resample_cost),
                   df |-> df]

ResampleInit ==
    /\ \E df \in Tables, features \in FeatureLists, resample_cost \in BucketWidths :
         rsm = [df |-> df, features |-> features, resample_cost |-> resample_cost,
                at |-> "input", out |-> <<>>, df_after |-> df]
    /\ significance = 1
    /\ self = __init__(significance)
    /\ lastDone = NoCall
    /\ pre = self
    /\ exc = FALSE
    /\ pc = <<>>
    /\ loc = <<>>
    /\ nrm = <<>>
    /\ fou = <<>>
    /\ wav = <<>>

CallResample ==
    /\ rsm.at = "input"
    /\ LET r == resampling_data(rsm.df, rsm.features, rsm.resample_cost)
       IN  rsm' = [rsm EXCEPT !.at = r.at, !.out = r.out, !.df_after = r.df]
    /\ UNCHANGED <<self, significance, lastDone, pre, exc, pc, loc, nrm, fou, wav>>

ResampleNext == CallResample

ResampleSpec == ResampleInit /\ [][ResampleNext]_vars

-----------------------------------------------------------------------------
(* Properties of ResampleSpec.                                             *)

Elems(seq) == { seq[k] : k \in 1..Len(seq) }

(* The rows of the caller's table that fall in bucket b. *)
RowsOfBucket(b) ==
    { k \in 1..Len(rsm.df.rows) :
        rsm.df.rows[k]["Date"] \div rsm.resample_cost = b }

RECURSIVE SumOver(_, _)
SumOver(c, ks) ==
    IF ks = {} THEN 0
    ELSE LET k == CHOOSE k \in ks : TRUE
         IN  rsm.df.rows[k][c] + SumOver(c, ks \ {k})

(* v is the sum of column c over bucket b. *)
IsSumOf(v, c, b) == v.den = 1 /\ v.num = SumOver(c, RowsOfBucket(b))

(* v is the mean of column c over bucket b (NaN for a bucket without rows). *)
IsMeanOf(v, c, b) ==
    IF RowsOfBucket(b) = {} THEN v.den = 0
    ELSE /\ v.den > 0
         /\ v.num * Cardinality(RowsOfBucket(b)) = v.den * SumOver(c, RowsOfBucket(b))

(* The buckets from the first date's to the last date's. *)
BucketsSpanned ==
    LET bs == { rsm.df.rows[k]["Date"] \div rsm.resample_cost : k \in 1..Len(rsm.df.rows) }
    IN  SetMin(bs)..SetMax(bs)

(* The returned table has exactly one row per bucket. *)
OneRowPerBucket ==
    /\ { rsm.out[k].bucket : k \in 1..Len(rsm.out) } = BucketsSpanned
    /\ Len(rsm.out) = Cardinality(BucketsSpanned)

(* C8 as stated, on the tables that have the 'Hour' and 'Minutes' columns  *)
(* it speaks of: for any table with a 'Date' column and any list of        *)
(* feature columns present in the table, the call returns for every bucket *)
(* the mean of 'Hour' and of 'Minutes' and the sum of each feature column, *)
(* and leaves df unchanged.                                                *)
C8_AnyTableAnyFeatures ==
    ( /\ rsm.at # "input"
      /\ {"Date", "Hour", "Minutes"} \subseteq rsm.df.columns
      /\ Elems(rsm.features) \subseteq rsm.df.columns ) =>
        /\ rsm.at = "returned"
        /\ rsm.df_after = rsm.df
        /\ OneRowPerBucket
        /\ \A k \in 1..Len(rsm.out) :
             /\ \A c \in {"Hour", "Minutes"} :
                  /\ c \in DOMAIN rsm.out[k].vals
                  /\ IsMeanOf(rsm.out[k].vals[c], c, rsm.out[k].bucket)
             /\ \A c \in Elems(rsm.features) :
                  /\ c \in DOMAIN rsm.out[k].vals
                  /\ IsSumOf(rsm.out[k].vals[c], c, rsm.out[k].bucket)

(* C8 as amended: for any table with 'Date', 'Hour' and 'Minutes' columns  *)
(* and any list of feature columns present in the table other than 'Date', *)
(* the call returns for every bucket the sum of each feature column and    *)
(* the mean of 'Hour' and of 'Minutes' where that column is not itself     *)
(* named in features, and leaves df unchanged.                             *)
C8_SumsFeaturesMeansTheRest ==
    ( /\ rsm.at # "input"
      /\ {"Date", "Hour", "Minutes"} \subseteq rsm.df.columns
      /\ Elems(rsm.features) \subseteq rsm.df.columns \ {"Date"} ) =>
        /\ rsm.at = "returned"
        /\ rsm.df_after = rsm.df
        /\ OneRowPerBucket
        /\ \A k \in 1..Len(rsm.out) :
             /\ DOMAIN rsm.out[k].vals = {"Hour", "Minutes"} \cup Elems(rsm.features)
             /\ \A c \in {"Hour", "Minutes"} \ Elems(rsm.features) :
                  IsMeanOf(rsm.out[k].vals[c], c, rsm.out[k].bucket)
             /\ \A c \in Elems(rsm.features) :
                  IsSumOf(rsm.out[k].vals[c], c, rsm.out[k].bucket)

(* C8 witness: two rows with Load = 1 in one bucket give Load = 2 there,   *)
(* beside the means of Hour and Minutes.                                   *)
C8_Witness ==
    /\ rsm.at = "returned"
    /\ rsm.features = <<"Load">>
    /\ Len(rsm.df.rows) = 2
    /\ \A k \in 1..2 : rsm.df.rows[k]["Load"] = 1 /\ rsm.df.rows[k]["Date"] \in {0, 1}
    /\ rsm.df.rows[1]["Hour"] # rsm.df.rows[2]["Hour"]
    /\ Len(rsm.out) = 1
    /\ rsm.out[1].vals["Load"] = [num |-> 2, den |-> 1]
    /\ rsm.out[1].vals["Hour"] = [num |-> 1, den |-> 2]

-----------------------------------------------------------------------------
(* WaveletSpec: wavelet_filter.  pywt.wavedec returns the list             *)
(* [cA_n, cD_n, ..., cD_1]: the approximation first, then one detail array *)
(* per level; the model draws that list from bounded sets and follows it   *)
(* to the call of pywt.waverec.  threshold is ThrNum/ThrDen, and a         *)
(* coefficient is held as its count of 1/ThrDen, so that the cutoff and    *)
(* the shrunk coefficients are whole numbers; nan marks numpy's NaN.       *)

MaxLevel == 2

ThrDen == 2

CoefValues == {-1, 0, 1}

Coef(v) == [nan |-> FALSE, val |-> v]

CoefNaN == [nan |-> TRUE, val |-> 0]

CoefArrays ==
    { [k \in DOMAIN a |-> Coef(a[k] * ThrDen)] :
        a \in [1..1 -> CoefValues] \cup [1..2 -> CoefValues] }

(* What wavedec may return for levels 0 .. MaxLevel. *)
wavedec == UNION { [1..(lev + 1) -> CoefArrays] : lev \in 0..MaxLevel }

RECURSIVE ArrayMax(_)
(* max(coeffs[i]): the largest coefficient, sign included. *)
ArrayMax(a) ==
    IF Len(a) = 1 THEN a[1].val
    ELSE LET m == ArrayMax(Tail(a))
         IN  IF a[1].val >= m THEN a[1].val ELSE m

(* pywt.threshold(data, mode='soft', value): data * clip(1 - value/|data|, *)
(* 0, None) element by element; 0 * inf and 0/0 are NaN.                   *)
SoftOne(d, value) ==
    IF d.val = 0
    THEN (IF value > 0 THEN Coef(0) ELSE CoefNaN)
    ELSE IF Abs(d.val) <= value THEN Coef(0)
         ELSE Coef(Sign(d.val) * (Abs(d.val) - value))

SoftThreshold(data, value) == [k \in DOMAIN data |-> SoftOne(data[k], value)]

(* threshold * max(coeffs[i]) *)
Cutoff(thrNum, a) == (thrNum * ArrayMax(a)) \div ThrDen

RECURSIVE ThresholdFrom(_, _, _)
(* for i in range(first, len(coeffs)): coeffs[i] = pywt.threshold(...) *)
ThresholdFrom(coeffs, i, thrNum) ==
    IF i >= Len(coeffs) THEN coeffs
    ELSE ThresholdFrom(
            [coeffs EXCEPT ![i + 1] = SoftThreshold(coeffs[i + 1],
                                                    Cutoff(thrNum, coeffs[i + 1]))],
            i + 1, thrNum)

(* A variant whose loop starts at 0 and thresholds the approximation too. *)
ThresholdAll(coeffs, thrNum) == ThresholdFrom(coeffs, 0, thrNum)

(* Lines 113-115: for i in range(1, len(coeffs)) *)
ThresholdDetails(coeffs, thrNum) == ThresholdFrom(coeffs, 1, thrNum)

WaveletInit ==
    /\ \E coeffs \in wavedec, thrNum \in 0..ThrDen :
         wav = [coeffs |-> coeffs, thrNum |-> thrNum, at |-> "decomposed",
                passed |-> <<>>]
    /\ significance = 1
    /\ self = __init__(significance)
    /\ lastDone = NoCall
    /\ pre = self
    /\ exc = FALSE
    /\ pc = <<>>
    /\ loc = <<>>
    /\ nrm = <<>>
    /\ fou = <<>>
    /\ rsm = <<>>

(* wavelet_filter from the return of wavedec to the call of waverec. *)
CallWaveletFilter ==
    /\ wav.at = "decomposed"
    /\ wav' = [wav EXCEPT !.at = "reconstructing",
                          !.passed = ThresholdDetails(wav.coeffs, wav.thrNum)]
    /\ UNCHANGED <<self, significance, lastDone, pre, exc, pc, loc, nrm, fou, rsm>>

WaveletNext == CallWaveletFilter

WaveletSpec == WaveletInit /\ [][WaveletNext]_vars

-----------------------------------------------------------------------------
(* Properties of WaveletSpec.                                              *)

(* The largest coefficient of the array wavedec returned at position i. *)
LargestOf(i) ==
    CHOOSE m \in { wav.coeffs[i][k].val : k \in DOMAIN wav.coeffs[i] } :
        \A k \in DOMAIN wav.coeffs[i] : wav.coeffs[i][k].val <= m

(* s is d soft-thresholded at cutoff cut, in units of 1/ThrDen: zero up to *)
(* the cutoff, moved towards zero by the cutoff beyond it.                 *)
IsSoftThresholded(s, d, cut) ==
    IF d.val = 0 THEN (IF cut > 0 THEN s = Coef(0) ELSE s.nan)
    ELSE /\ ~s.nan
         /\ Abs(d.val) <= cut => s.val = 0
         /\ (Abs(d.val) > cut /\ d.val > 0) => s.val = d.val - cut
         /\ (Abs(d.val) > cut /\ d.val < 0) => s.val = d.val + cut

(* C9: of the arrays of the decomposition, the approximation (position 0)  *)
(* reaches the reconstruction unchanged and every detail array (positions  *)
(* 1 .. last) reaches it soft-thresholded at the cutoff threshold times    *)
(* the largest coefficient of that same array.                             *)
C9_DetailsThresholdedApproximationKept ==
    wav.at = "reconstructing" =>
      /\ Len(wav.passed) = Len(wav.coeffs)
      /\ wav.passed[1] = wav.coeffs[1]
      /\ \A i \in 2..Len(wav.coeffs) :
           /\ DOMAIN wav.passed[i] = DOMAIN wav.coeffs[i]
           /\ \A k \in DOMAIN wav.coeffs[i] :
                IsSoftThresholded(wav.passed[i][k], wav.coeffs[i][k],
                                  (wav.thrNum * LargestOf(i)) \div ThrDen)

(* C9 witness: two detail arrays with different largest coefficients, each *)
(* cut at its own cutoff, beside an approximation that the same cutoff     *)
(* would have changed.                                                     *)
C9_Witness ==
    /\ wav.at = "reconstructing"
    /\ wav.thrNum = 1
    /\ Len(wav.coeffs) = 3
    /\ wav.coeffs[1] = <<Coef(ThrDen), Coef(-ThrDen)>>
    /\ wav.passed[1] = wav.coeffs[1]
    /\ wav.coeffs[2] = <<Coef(ThrDen), Coef(-ThrDen)>>
    /\ wav.passed[2] = <<Coef(ThrDen - 1), Coef(1 - ThrDen)>>
    /\ wav.coeffs[3] = <<Coef(-ThrDen), Coef(-ThrDen)>>
    /\ wav.passed[3] # wav.coeffs[3]

=============================================================================
